---------------------------- MODULE Spec2Model ----------------------------
(***************************************************************************)
(* The fuzzy dictionary of harper-core (spell/fst_dictionary.rs) and the   *)
(* spell-check pass of lt-core (linting/spell_check.rs).                   *)
(*                                                                         *)
(* Characters are Unicode code points, words are sequences of code points. *)
(* The keys of the finite-state map are ordered as their UTF-8 bytes are,  *)
(* which is the order of the code points.                                  *)
(***************************************************************************)
EXTENDS Integers, Sequences, FiniteSets, TLC

\* ------------------------------------------------------------------ bounds

\* the longest word list of a modelled dictionary
MaxWords == 3
\* the largest max_results a fuzzy_match call of the model passes
MaxResultsArg == 2
\* the largest max_distance a fuzzy_match call of the model passes
MaxDistanceArg == 3
\* the longest document spell_check is run on
MaxDocLen == 2
\* the longest word list when two threads use the dictionary
MaxWordsThreads == 1

\* ------------------------------------------------------- program constants

\* `i as u8`: the distance field is 8 bits wide
U8Mod == 256
\* suggest_correct_spelling(word_chars, 1, 3, &dictionary)
SpellMaxDistance == 1
SpellMaxResults == 3
\* the largest max_distance Levenshtein::new builds an automaton for
MaxSupportedDistance == 2

\* --------------------------------------------------------------- alphabet

\* the code points of the model's characters: A B a b ' and U+2019
Ch == [A |-> 65, B |-> 66, a |-> 97, b |-> 98, apostrophe |-> 39, right_quote |-> 8217]

\* the words a modelled word list is drawn from (stored in canonical form)
WordPool ==
  { <<Ch.A>>, <<Ch.b>>, <<Ch.A, Ch.b>>, <<Ch.a, Ch.b>>, <<Ch.A, Ch.B>> }

\* the words a query or a document is drawn from
QueryPool ==
  WordPool \cup { <<Ch.a>>, <<Ch.B>>, <<Ch.a, Ch.right_quote>> }

\* the words of a document
DocPool == { <<Ch.a, Ch.b>>, <<Ch.a, Ch.right_quote>>, <<Ch.B>>, <<Ch.b>> }

\* the number of entries of the word list that precede the modelled ones:
\* words no query of the model comes near.  254 puts the modelled words at
\* the indices 254, 255, 256, ...
Bases == {0, 254}

Threads == {"t1", "t2"}
MainThread == "t1"

\* ------------------------------------------------------ characters, words

Min2(a, b) == IF a <= b THEN a ELSE b

Max2(a, b) == IF a >= b THEN a ELSE b

\* char::to_lowercase on the alphabet
to_lowercase(c) == IF c >= 65 /\ c <= 90 THEN c + 32 ELSE c

\* char::to_uppercase on the alphabet
to_uppercase(c) == IF c >= 97 /\ c <= 122 THEN c - 32 ELSE c

\* seq_to_normalized: typographic quotes become the plain apostrophe
NormalizeChar(c) == IF c = Ch.right_quote THEN Ch.apostrophe ELSE c

seq_to_normalized(chars) == [n \in 1..Len(chars) |-> NormalizeChar(chars[n])]

\* a form with every character lowercased, and with every character uppercased
Lowered(chars) == [n \in 1..Len(chars) |-> to_lowercase(chars[n])]

Uppered(chars) == [n \in 1..Len(chars) |-> to_uppercase(chars[n])]

\* lexicographic order of two keys
RECURSIVE KeyLess(_, _)
KeyLess(a, b) ==
  IF b = <<>> THEN FALSE
  ELSE IF a = <<>> THEN TRUE
  ELSE IF Head(a) # Head(b) THEN Head(a) < Head(b)
  ELSE KeyLess(Tail(a), Tail(b))

\* Levenshtein distance with unit costs, over code points
RECURSIVE Lev(_, _)
Lev(a, b) ==
  IF a = <<>> THEN Len(b)
  ELSE IF b = <<>> THEN Len(a)
  ELSE Min2(Min2(Lev(Tail(a), b) + 1, Lev(a, Tail(b)) + 1),
            Lev(Tail(a), Tail(b)) + (IF Head(a) = Head(b) THEN 0 ELSE 1))

\* the keys of S in the map's traversal order
RECURSIVE SortKeys(_)
SortKeys(S) ==
  IF S = {} THEN <<>>
  ELSE LET m == CHOOSE k \in S : \A o \in S : o = k \/ KeyLess(k, o)
       IN <<m>> \o SortKeys(S \ {m})

Range(s) == {s[n] : n \in 1..Len(s)}

\* ------------------------------------------------- the embedded dictionary

\* FullDictionary: the word list; the WordIndex of words[n] is base + n - 1
WordIndexOf(full_dict, n) == full_dict.base + n - 1

WordIndexes(full_dict) ==
  {WordIndexOf(full_dict, n) : n \in 1..Len(full_dict.words)}

\* FullDictionary::get_word(i)
get_word(full_dict, i) == full_dict.words[i - full_dict.base + 1]

\* FullDictionary::get_metadata(i): the metadata is opaque, one value per word
get_metadata(full_dict, i) == <<"metadata", i>>

\* FullDictionary::contains_word: the exact characters are a word of the list
contains_word(full_dict, word) == word \in Range(full_dict.words)

\* FullDictionary::words_iter
words_iter(full_dict) == full_dict.words

\* the canonical key of a word and its folded-case key
CanonicalKey(word) == seq_to_normalized(word)

FoldedKey(word) == Lowered(seq_to_normalized(word))

\* the keys of dictionary.fst: one per word, plus its folded-case key
IndexKeys(full_dict) ==
  {CanonicalKey(w) : w \in Range(full_dict.words)}
    \cup {FoldedKey(w) : w \in Range(full_dict.words)}

\* the word indexes a key may map to: the word it is the canonical key of,
\* else one of the words it is the folded-case key of
KeyCandidates(full_dict, key) ==
  LET canon == {n \in 1..Len(full_dict.words) : CanonicalKey(full_dict.words[n]) = key}
      folded == {n \in 1..Len(full_dict.words) : FoldedKey(full_dict.words[n]) = key}
  IN {WordIndexOf(full_dict, n) : n \in (IF canon # {} THEN canon ELSE folded)}

\* the maps dictionary.fst can hold for a word list
WordMaps(full_dict) ==
  {f \in [IndexKeys(full_dict) -> WordIndexes(full_dict)] :
     \A key \in IndexKeys(full_dict) : f[key] \in KeyCandidates(full_dict, key)}

\* the word lists of at most MaxWords distinct words
WordLists ==
  {ws \in UNION {[1..n -> WordPool] : n \in 1..MaxWords} :
     \A m, n \in 1..Len(ws) : m # n => ws[m] # ws[n]}

\* ------------------------------------------------------------ fuzzy match

\* Levenshtein::new(query, max_distance): Ok unless the automaton is too big
LevenshteinNewOk(max_distance) == max_distance <= MaxSupportedDistance

\* word_map.search(aut).into_stream(): the (key, value) pairs whose key the
\* automaton accepts, in key order
Search(word_map, query, max_distance) ==
  LET keys == SortKeys({k \in DOMAIN word_map : Lev(query, k) <= max_distance})
  IN [n \in 1..Len(keys) |-> <<keys[n], word_map[keys[n]]>>]

\* the while loop: one round pulls from the folded stream, then from the
\* case-sensitive one
RECURSIVE PullLoop(_, _, _, _, _, _, _)
PullLoop(lower_stream, stream, max_results, i, word_indexes, lp, cp) ==
  IF ~(i < max_results)
  THEN [word_indexes |-> word_indexes, lower_pulls |-> lp, case_pulls |-> cp, rounds |-> i]
  ELSE LET lv == lp < Len(lower_stream)
           wi1 == IF lv THEN Append(word_indexes, lower_stream[lp + 1][2]) ELSE word_indexes
           lp1 == IF lv THEN lp + 1 ELSE lp
           cv == cp < Len(stream)
           wi2 == IF cv THEN Append(wi1, stream[cp + 1][2]) ELSE wi1
           cp1 == IF cv THEN cp + 1 ELSE cp
           flag == lv \/ cv
       IN IF ~flag
          THEN [word_indexes |-> word_indexes, lower_pulls |-> lp, case_pulls |-> cp,
                rounds |-> i]
          ELSE PullLoop(lower_stream, stream, max_results, i + 1, wi2, lp1, cp1)

\* a faulty retain: nothing is removed
RetainAll(word_indexes) == word_indexes

\* word_indexes.retain(|item| seen.insert(*item)): the first occurrences, in
\* order

RECURSIVE RetainFrom(_, _)
RetainFrom(word_indexes, seen) ==
  IF word_indexes = <<>> THEN <<>>
  ELSE IF Head(word_indexes) \in seen THEN RetainFrom(Tail(word_indexes), seen)
  ELSE <<Head(word_indexes)>>
         \o RetainFrom(Tail(word_indexes), seen \cup {Head(word_indexes)})

Retain(word_indexes) == RetainFrom(word_indexes, {})

\* a faulty take: nothing is dropped
TakeEverything(s, n) == s

\* .take(max_results)

Take(s, n) == SubSeq(s, 1, Min2(n, Len(s)))

\* a faulty cast: the width is kept
AsWide(i) == i

\* `i as u8`

AsU8(i) == i % U8Mod

\* the closure of the two .map calls: one MatchResult
MatchResult(full_dict, i) ==
  [word |-> get_word(full_dict, i), distance |-> AsU8(i),
   metadata |-> get_metadata(full_dict, i)]

\* a faulty loop: a round in which one stream yields nothing ends it
RECURSIVE PullLoopBoth(_, _, _, _, _, _, _)
PullLoopBoth(lower_stream, stream, max_results, i, word_indexes, lp, cp) ==
  IF ~(i < max_results) \/ ~(lp < Len(lower_stream)) \/ ~(cp < Len(stream))
  THEN [word_indexes |-> word_indexes, lower_pulls |-> lp, case_pulls |-> cp, rounds |-> i]
  ELSE PullLoopBoth(lower_stream, stream, max_results, i + 1,
                    word_indexes \o <<lower_stream[lp + 1][2], stream[cp + 1][2]>>,
                    lp + 1, cp + 1)

InterleaveBoth(lower_stream, stream, max_results) ==
  PullLoopBoth(lower_stream, stream, max_results, 0, <<>>, 0, 0)

\* the loop of fuzzy_match_str from its first round
Interleave(lower_stream, stream, max_results) ==
  PullLoop(lower_stream, stream, max_results, 0, <<>>, 0, 0)

\* what a call leaves when an unwrap panics: nothing was pulled, nothing is
\* returned
Panicked ==
  [outcome |-> "panicked", lower_pulls |-> 0, case_pulls |-> 0, rounds |-> 0,
   word_indexes |-> <<>>, resolved |-> <<>>, result |-> <<>>]

\* the body of fuzzy_match_str after the two automata were built
MatchBody(self, misspelled_word, misspelled_lower, max_distance, max_results) ==
  LET lower_stream == Search(self.word_map, misspelled_lower, max_distance)
      stream == Search(self.word_map, misspelled_word, max_distance)
      pulled == Interleave(lower_stream, stream, max_results)
      resolved == Take(Retain(pulled.word_indexes), max_results)
  IN [outcome |-> "returned",
      lower_pulls |-> pulled.lower_pulls, case_pulls |-> pulled.case_pulls,
      rounds |-> pulled.rounds,
      word_indexes |-> pulled.word_indexes, resolved |-> resolved,
      result |-> [n \in 1..Len(resolved) |-> MatchResult(self.full_dict, resolved[n])]]

\* a faulty folding: the folded stream is seeded with the unfolded form
misspelled_unfolded(misspelled_normalized) == misspelled_normalized

\* misspelled_normalized.iter().flat_map(|v| v.to_lowercase()).collect()
misspelled_lower_of(misspelled_normalized) ==
  [n \in 1..Len(misspelled_normalized) |-> to_lowercase(misspelled_normalized[n])]

\* a faulty fuzzy_match_str: the automata are never refused
fuzzy_match_str_unchecked(self, word, max_distance, max_results) ==
  MatchBody(self, seq_to_normalized(word), misspelled_lower_of(seq_to_normalized(word)),
            max_distance, max_results)

\* FstDictionary::fuzzy_match_str.  The value is the returned sequence
\* (result) with what the call did on the way: the indexes pushed by the loop
\* (word_indexes), how many items each stream yielded, and the indexes the
\* results were resolved from (resolved).
fuzzy_match_str(self, word, max_distance, max_results) ==
  LET misspelled_word == seq_to_normalized(word)
      misspelled_lower == misspelled_lower_of(misspelled_word)
  IN IF ~LevenshteinNewOk(max_distance)
     THEN Panicked
     ELSE MatchBody(self, misspelled_word, misspelled_lower, max_distance, max_results)

\* FstDictionary::fuzzy_match: the characters collected into a String
fuzzy_match(self, word, max_distance, max_results) ==
  fuzzy_match_str(self, word, max_distance, max_results)

\* ------------------------------------------------------------ spell check

\* suggest_correct_spelling: the words of the dictionary's fuzzy matches
suggest_correct_spelling(word_chars, max_distance, max_results, dictionary) ==
  LET found == fuzzy_match(dictionary, word_chars, max_distance, max_results).result
  IN [n \in 1..Len(found) |-> found[n].word]

ReplaceWith(word) == [ReplaceWith |-> word]

Lint(span, possibilities) ==
  [span |-> span, lint_kind |-> "Spelling",
   suggestions |-> [n \in 1..Len(possibilities) |-> ReplaceWith(possibilities[n])]]

\* a faulty loop body: a word without suggestions is not reported
spell_check_word_quiet(dictionary, lints, span, word_chars) ==
  LET possibilities ==
        suggest_correct_spelling(word_chars, SpellMaxDistance, SpellMaxResults, dictionary)
  IN IF contains_word(dictionary.full_dict, word_chars) \/ possibilities = <<>>
     THEN lints
     ELSE Append(lints, Lint(span, possibilities))

\* a faulty loop body: only exact matches are asked for
spell_check_word_narrow(dictionary, lints, span, word_chars) ==
  IF contains_word(dictionary.full_dict, word_chars)
  THEN lints
  ELSE Append(lints,
         Lint(span, suggest_correct_spelling(word_chars, 0, SpellMaxResults, dictionary)))

\* the body of the for loop of spell_check: the lints after one more word
spell_check_word(dictionary, lints, span, word_chars) ==
  IF contains_word(dictionary.full_dict, word_chars)
  THEN lints
  ELSE Append(lints,
         Lint(span,
              suggest_correct_spelling(word_chars, SpellMaxDistance, SpellMaxResults,
                                       dictionary)))

\* the documents: the words a Document reports, a span being a position
Documents == UNION {[1..n -> DocPool] : n \in 0..MaxDocLen}

\* ------------------------------------------------------------------ state

VARIABLES
  asset,     \* the embedded word list and dictionary.fst
  DICT,      \* per thread: the thread_local's state and its instance
  built,     \* per thread: how often uncached_inner_new ran
  tpc,       \* per thread: where the thread is in curated()
  handle,    \* per thread: the id of the instance its last curated() returned
  call,      \* the dictionary call in flight, with its value
  panicked,  \* whether an earlier fuzzy_match call panicked
  check,     \* the spell_check run in flight
  raced      \* whether two threads ran the initializer at the same time

vars == <<asset, DICT, built, tpc, handle, call, panicked, check, raced>>

NoDict == [id |-> <<>>]
NoHandle == <<>>
NoCall == [op |-> "none"]
NoCheck == [active |-> FALSE]

Assets(lists) ==
  UNION {
    UNION { {[full_dict |-> [words |-> ws, base |-> b], word_map |-> f] :
               f \in WordMaps([words |-> ws, base |-> b])} : b \in Bases }
    : ws \in lists }

InitWith(lists) ==
  /\ asset \in Assets(lists)
  /\ DICT = [t \in Threads |-> [state |-> "uninit", inst |-> NoDict]]
  /\ built = [t \in Threads |-> 0]
  /\ tpc = [t \in Threads |-> "idle"]
  /\ handle = [t \in Threads |-> NoHandle]
  /\ call = NoCall
  /\ panicked = FALSE
  /\ check = NoCheck
  /\ raced = FALSE

Init == InitWith(WordLists)

\* a thread that neither is inside curated() nor runs a call or a check
Free(t) ==
  /\ tpc[t] = "idle"
  /\ call.op # "none" => call.thread # t
  /\ check.active => check.thread # t

\* a faulty thread_local: the initializer runs on every access
AlwaysInit(state) == TRUE

\* thread_local!: the initializer runs on the first access of the thread
NeedsInit(state) == state = "uninit"

\* curated() is entered: DICT.with finds the value or starts the initializer
CuratedEnter(t) ==
  /\ Free(t)
  /\ IF NeedsInit(DICT[t].state)
     THEN /\ DICT' = [DICT EXCEPT ![t] = [state |-> "initializing", inst |-> NoDict]]
          /\ tpc' = [tpc EXCEPT ![t] = "constructing"]
          /\ raced' = (raced \/ \E o \in Threads \ {t} : tpc[o] = "constructing")
     ELSE /\ tpc' = [tpc EXCEPT ![t] = "cloning"]
          /\ UNCHANGED <<DICT, raced>>
  /\ UNCHANGED <<asset, built, handle, call, panicked, check>>

\* uncached_inner_new: the instance is built from the embedded asset
UncachedInnerNew(t) ==
  /\ tpc[t] = "constructing"
  /\ built' = [built EXCEPT ![t] = @ + 1]
  /\ DICT' = [DICT EXCEPT ![t] =
               [state |-> "init",
                inst |-> [id |-> <<t, built[t] + 1>>,
                          full_dict |-> asset.full_dict,
                          word_map |-> asset.word_map]]]
  /\ tpc' = [tpc EXCEPT ![t] = "cloning"]
  /\ UNCHANGED <<asset, handle, call, panicked, check, raced>>

\* |v| v.clone(): curated() returns a handle to the thread's instance
CuratedReturn(t) ==
  /\ tpc[t] = "cloning"
  /\ handle' = [handle EXCEPT ![t] = DICT[t].inst.id]
  /\ tpc' = [tpc EXCEPT ![t] = "idle"]
  /\ UNCHANGED <<asset, DICT, built, call, panicked, check, raced>>

\* a thread that holds a handle to its dictionary; the model follows one
\* dictionary call or one spell_check at a time
Holds(t) ==
  /\ Free(t)
  /\ handle[t] # NoHandle
  /\ call = NoCall
  /\ check = NoCheck

\* fuzzy_match on the thread's handle
FuzzyMatch(t) ==
  /\ Holds(t)
  /\ \E word \in QueryPool, max_distance \in 0..MaxDistanceArg,
        max_results \in 0..MaxResultsArg :
       LET r == fuzzy_match(DICT[t].inst, word, max_distance, max_results)
       IN /\ call' = [op |-> "fuzzy_match", thread |-> t, word |-> word,
                      max_distance |-> max_distance, max_results |-> max_results,
                      after_panic |-> panicked, value |-> r]
          /\ panicked' = (panicked \/ r.outcome = "panicked")
  /\ UNCHANGED <<asset, DICT, built, tpc, handle, check, raced>>

\* contains_word on the thread's handle
ContainsWord(t) ==
  /\ Holds(t)
  /\ \E word \in QueryPool :
       call' = [op |-> "contains_word", thread |-> t, word |-> word,
                value |-> contains_word(DICT[t].inst.full_dict, word)]
  /\ UNCHANGED <<asset, DICT, built, tpc, handle, panicked, check, raced>>

\* words_iter on the thread's handle
WordsIter(t) ==
  /\ Holds(t)
  /\ call' = [op |-> "words_iter", thread |-> t,
              value |-> words_iter(DICT[t].inst.full_dict)]
  /\ UNCHANGED <<asset, DICT, built, tpc, handle, panicked, check, raced>>

\* the call's value goes to the caller
CallReturn ==
  /\ call # NoCall
  /\ call' = NoCall
  /\ UNCHANGED <<asset, DICT, built, tpc, handle, panicked, check, raced>>

\* spell_check(document) begins: the dictionary is the thread's handle
SpellCheckStart(t) ==
  /\ Holds(t)
  /\ \E document \in Documents :
       check' = [active |-> TRUE, thread |-> t, document |-> document, next |-> 1,
                 lints |-> <<>>]
  /\ UNCHANGED <<asset, DICT, built, tpc, handle, call, panicked, raced>>

\* one pass of the for loop
SpellCheckWord ==
  /\ check.active
  /\ check.next <= Len(check.document)
  /\ check' = [check EXCEPT
                !.lints = spell_check_word(DICT[check.thread].inst, check.lints,
                                           check.next, check.document[check.next]),
                !.next = @ + 1]
  /\ UNCHANGED <<asset, DICT, built, tpc, handle, call, panicked, raced>>

\* the loop is over: lints is returned
SpellCheckReturn ==
  /\ check.active
  /\ check.next > Len(check.document)
  /\ check' = NoCheck
  /\ UNCHANGED <<asset, DICT, built, tpc, handle, call, panicked, raced>>

ThreadStep(t) ==
  \/ CuratedEnter(t)
  \/ UncachedInnerNew(t)
  \/ CuratedReturn(t)
  \/ FuzzyMatch(t)
  \/ ContainsWord(t)
  \/ WordsIter(t)
  \/ SpellCheckStart(t)

\* one thread uses the dictionary
Next ==
  \/ ThreadStep(MainThread)
  \/ CallReturn
  \/ SpellCheckWord
  \/ SpellCheckReturn

Spec == Init /\ [][Next]_vars

\* two threads use the dictionary, each through its own thread_local
InitThreads ==
  InitWith({ws \in WordLists : Len(ws) <= MaxWordsThreads})

NextThreads ==
  \/ \E t \in Threads : ThreadStep(t)
  \/ CallReturn
  \/ SpellCheckWord
  \/ SpellCheckReturn

SpecThreads == InitThreads /\ [][NextThreads]_vars

\* ------------------------------------------------------------- properties

\* a fuzzy_match call that returned
Returned == call.op = "fuzzy_match" /\ call.value.outcome = "returned"

Words == asset.full_dict.words

ResultWords(result) == {result[n].word : n \in 1..Len(result)}

\* the streams of a query as the index yields them
FoldedStream(word, max_distance) ==
  Search(asset.word_map, FoldedKey(word), max_distance)

CaseStream(word, max_distance) ==
  Search(asset.word_map, CanonicalKey(word), max_distance)

StreamIndexes(stream) == {stream[n][2] : n \in 1..Len(stream)}

\* C1: the sequence fuzzy_match returns has at most max_results entries,
\* max_results = 0 included.
C1_LengthAtMostMaxResults ==
  Returned => Len(call.value.result) <= call.max_results

\* C1's case: the loop left more distinct indexes than max_results
C1_Witness ==
  /\ Returned
  /\ Len(RetainFrom(call.value.word_indexes, {})) > call.max_results
  /\ Len(call.value.result) = call.max_results

\* C2: no two entries of one result share the underlying word: the indexes
\* they were resolved from are pairwise distinct, and so are their words.
C2_NoSharedWord ==
  Returned =>
    \A m, n \in 1..Len(call.value.result) :
      m # n => /\ call.value.resolved[m] # call.value.resolved[n]
               /\ call.value.result[m].word # call.value.result[n].word

\* C2's case: the two traversals yielded the same index more than once and the
\* result holds two entries
C2_Witness ==
  /\ Returned
  /\ Len(call.value.result) >= 2
  /\ Len(call.value.word_indexes) > Cardinality(Range(call.value.word_indexes))
  /\ call.word # FoldedKey(call.word)

\* C3: fuzzy_match(w, 0, k) with w a word of the dictionary and k >= 1 returns
\* a non-empty result whose first word is w.
C3_ExactWordFirst ==
  ( /\ Returned
    /\ call.max_distance = 0
    /\ call.max_results >= 1
    /\ contains_word(asset.full_dict, call.word) )
  => /\ call.value.result # <<>>
     /\ call.value.result[1].word = call.word

\* the keys within the spell check's distance of a word's canonical or folded
\* form
NearKeys(u) ==
  {k \in DOMAIN asset.word_map :
     \/ Lev(CanonicalKey(u), k) <= SpellMaxDistance
     \/ Lev(FoldedKey(u), k) <= SpellMaxDistance}

LintsOf(span) == {j \in 1..Len(check.lints) : check.lints[j].span = span}

Suggested(j) == {check.lints[j].suggestions[n].ReplaceWith :
                   n \in 1..Len(check.lints[j].suggestions)}

\* the spans spell_check has passed whose word is not in the dictionary
UnknownSpans ==
  {s \in 1..(check.next - 1) : ~contains_word(asset.full_dict, check.document[s])}

\* C4 as claimed: a document word u that is not in the dictionary gets exactly
\* one Lint, and that Lint suggests every dictionary word at edit distance 1
\* from u.
C4_SuggestsEveryNeighbour ==
  check.active =>
    \A s \in UnknownSpans :
      /\ Cardinality(LintsOf(s)) = 1
      /\ \A x \in Range(Words) :
           Lev(check.document[s], x) = 1 => \A j \in LintsOf(s) : x \in Suggested(j)

\* C4 amended: a document word u that is not in the dictionary gets exactly
\* one Lint, and that Lint suggests a dictionary word x at edit distance 1
\* from u whenever the index maps x's canonical key to x and at most 3 keys
\* of the index lie within distance 1 of u's canonical form or of its folded
\* form.
C4_SuggestsNeighbourAmongFew ==
  check.active =>
    \A s \in UnknownSpans :
      /\ Cardinality(LintsOf(s)) = 1
      /\ \A n \in 1..Len(Words) :
           ( /\ Lev(check.document[s], Words[n]) = 1
             /\ asset.word_map[CanonicalKey(Words[n])] = WordIndexOf(asset.full_dict, n)
             /\ Cardinality(NearKeys(check.document[s])) <= SpellMaxResults )
           => \A j \in LintsOf(s) : Words[n] \in Suggested(j)

\* C4's case: an unknown word was passed, a dictionary word is at distance 1
\* from it, three keys are near it, and its Lint suggests that word
C4_Witness ==
  /\ check.active
  /\ \E s \in UnknownSpans : \E x \in Range(Words) :
       /\ Lev(check.document[s], x) = 1
       /\ Cardinality(NearKeys(check.document[s])) = SpellMaxResults
       /\ \E j \in LintsOf(s) : x \in Suggested(j)

\* C5: spell_check emits exactly one Lint, of kind Spelling and with the
\* word's span, for each word span whose characters are not in the dictionary,
\* none for a span whose characters are, in the order of the spans, also when
\* no suggestion was found.
C5_OneLintPerUnknownWord ==
  check.active =>
    /\ Len(check.lints) = Cardinality(UnknownSpans)
    /\ \A j \in 1..Len(check.lints) :
         /\ check.lints[j].span \in UnknownSpans
         /\ check.lints[j].lint_kind = "Spelling"
         /\ j < Len(check.lints) => check.lints[j].span < check.lints[j + 1].span

\* C5's case: the loop is over a document with a dictionary word and an
\* unknown word, and the unknown word's Lint has no suggestion
C5_Witness ==
  /\ check.active
  /\ check.next > Len(check.document)
  /\ \E s \in 1..Len(check.document) : contains_word(asset.full_dict, check.document[s])
  /\ \E j \in 1..Len(check.lints) : check.lints[j].suggestions = <<>>

IsUpper(c) == to_lowercase(c) # c

IsLower(c) == to_uppercase(c) # c

MixedCase(x) ==
  /\ \E n \in 1..Len(x) : IsUpper(x[n])
  /\ \E n \in 1..Len(x) : IsLower(x[n])

\* the mixed-case words of the dictionary a query is the all-lowercase or the
\* all-uppercase variant of, by position in the word list
VariantsOf(word) ==
  {n \in 1..Len(Words) :
     /\ MixedCase(Words[n])
     /\ word \in {Lowered(Words[n]), Uppered(Words[n])}}

\* C6 as claimed: a query with the all-lowercase or all-uppercase variant of
\* a mixed-case dictionary word x returns x, for every max_distance and every
\* max_results >= 1.
C6_CaseVariantSurfaces ==
  (Returned /\ call.max_results >= 1) =>
    \A n \in VariantsOf(call.word) : Words[n] \in ResultWords(call.value.result)

\* C6 amended: such a query returns x when the index maps x's folded key to x
\* and that key is among the first ceil(max_results / 2) items of the folded
\* traversal, as it always is for max_distance 0.
C6_CaseVariantSurfacesEarly ==
  (Returned /\ call.max_results >= 1) =>
    \A n \in VariantsOf(call.word) :
      LET folded == FoldedStream(call.word, call.max_distance)
      IN \A p \in 1..Len(folded) :
           ( /\ folded[p] = <<FoldedKey(Words[n]), WordIndexOf(asset.full_dict, n)>>
             /\ 2 * p <= call.max_results + 1 )
           => Words[n] \in ResultWords(call.value.result)

\* C6's case: an all-uppercase query of a mixed-case word, which only the
\* folded traversal finds
C6_Witness ==
  /\ Returned
  /\ call.max_results >= 1
  /\ \E n \in VariantsOf(call.word) :
       /\ call.word = Uppered(Words[n])
       /\ Words[n] \in ResultWords(call.value.result)
       /\ Words[n] \notin {get_word(asset.full_dict, i) :
                             i \in StreamIndexes(CaseStream(call.word, call.max_distance))}

C8_Lifecycle ==
  \A t \in Threads :
    /\ built[t] <= 1
    /\ (DICT[t].state = "init") = (built[t] = 1)
    /\ DICT[t].state = "uninit" => (tpc[t] = "idle" /\ handle[t] = NoHandle)
    /\ DICT[t].state = "init" =>
         DICT[t].inst = [id |-> <<t, 1>>, full_dict |-> asset.full_dict,
                         word_map |-> asset.word_map]
    /\ handle[t] # NoHandle => (DICT[t].state = "init" /\ handle[t] = DICT[t].inst.id)
    /\ \A o \in Threads \ {t} : handle[t] # NoHandle => handle[t] # handle[o]

\* C8 as a property of every behaviour: the lifecycle above always holds, and
\* no step changes the embedded asset or an instance once it is built.
C8_BuiltOnceNeverChanged ==
  /\ []C8_Lifecycle
  /\ [][ /\ asset' = asset
         /\ \A t \in Threads : DICT[t].state = "init" => DICT'[t] = DICT[t] ]_vars

\* C8's case: both threads ran the initializer at the same time, both hold a
\* handle, and one of them is inside a later curated()
C8_Witness ==
  /\ raced
  /\ \A t \in Threads : handle[t] # NoHandle /\ built[t] = 1
  /\ \E t \in Threads : tpc[t] = "cloning"

\* the position of a returned word in the word list
PositionOf(word) == CHOOSE n \in 1..Len(Words) : Words[n] = word

\* C9 as claimed: the distance field of every MatchResult is the WordIndex of
\* its word.
C9_DistanceIsWordIndex ==
  Returned =>
    \A n \in 1..Len(call.value.result) :
      call.value.result[n].distance =
        WordIndexOf(asset.full_dict, PositionOf(call.value.result[n].word))

\* C9 amended: the distance field of every MatchResult is the WordIndex of
\* its word modulo 256: the WordIndex itself only below 256.
C9_DistanceIsWordIndexMod256 ==
  Returned =>
    \A n \in 1..Len(call.value.result) :
      LET i == WordIndexOf(asset.full_dict, PositionOf(call.value.result[n].word))
      IN /\ call.value.result[n].distance = i % 256
         /\ i < 256 => call.value.result[n].distance = i

\* C9's case: a returned word whose WordIndex is 256 or more
C9_Witness ==
  /\ Returned
  /\ \E n \in 1..Len(call.value.result) :
       WordIndexOf(asset.full_dict, PositionOf(call.value.result[n].word)) >= 256

\* the reference of C10: the rounds in which a traversal yields, the working
\* list, its first occurrences
RefRounds(F, C, max_results) == Min2(max_results, Max2(Len(F), Len(C)))

RECURSIVE RefWorking(_, _, _, _)
RefWorking(F, C, r, rounds) ==
  IF r > rounds THEN <<>>
  ELSE (IF r <= Len(F) THEN <<F[r][2]>> ELSE <<>>)
         \o (IF r <= Len(C) THEN <<C[r][2]>> ELSE <<>>)
         \o RefWorking(F, C, r + 1, rounds)

RefFirsts(W) ==
  LET first == {n \in 1..Len(W) : \A m \in 1..(n - 1) : W[m] # W[n]}
      f[n \in 0..Len(W)] ==
        IF n = 0 THEN <<>>
        ELSE IF n \in first THEN Append(f[n - 1], W[n]) ELSE f[n - 1]
  IN f[Len(W)]

RefResolved(word, max_distance, max_results) ==
  LET F == FoldedStream(word, max_distance)
      C == CaseStream(word, max_distance)
      firsts == RefFirsts(RefWorking(F, C, 1, RefRounds(F, C, max_results)))
  IN SubSeq(firsts, 1, Min2(max_results, Len(firsts)))

\* C10: the result is the reference's: at most max_results rounds of folded
\* item then case-sensitive item, first occurrences kept, the first
\* max_results of them; at most 2 * max_results items are pulled, and neither
\* traversal's end stops the other one.
C10_InterleaveMatchesReference ==
  Returned =>
    LET F == FoldedStream(call.word, call.max_distance)
        C == CaseStream(call.word, call.max_distance)
        ref == RefResolved(call.word, call.max_distance, call.max_results)
    IN /\ call.value.resolved = ref
       /\ Len(call.value.result) = Len(ref)
       /\ \A n \in 1..Len(ref) :
            call.value.result[n].word = get_word(asset.full_dict, ref[n])
       /\ call.value.lower_pulls + call.value.case_pulls <= 2 * call.max_results
       /\ call.value.lower_pulls = Min2(call.max_results, Len(F))
       /\ call.value.case_pulls = Min2(call.max_results, Len(C))

\* C10's case: more than max_results distinct words lie within max_distance
\* and the result holds fewer than max_results
C10_Witness ==
  /\ Returned
  /\ Len(call.value.result) < call.max_results
  /\ Cardinality(StreamIndexes(FoldedStream(call.word, call.max_distance))
                   \cup StreamIndexes(CaseStream(call.word, call.max_distance)))
       > call.max_results

=============================================================================
